---- MODULE Spec2Model ----
(***************************************************************************)
(* TBG web front end (app.py): a Flask application object, three routes   *)
(* registered by decorator, and a main guard that starts the development  *)
(* listener with debug=settings.debug.                                     *)
(*                                                                         *)
(* The module body is modelled statement by statement (pc), the listener  *)
(* as request contexts in flight: a request is accepted and routed against*)
(* url_map, its view function is called, its response is sent.  What the  *)
(* decorators, render_template and app.run do is the framework's          *)
(* documented behaviour for exactly the calls app.py makes.               *)
(***************************************************************************)
EXTENDS Bags, FiniteSets, Naturals, Sequences, TLC

VARIABLES
    pc,              \* the statement of app.py the interpreter is at
    settings_src,    \* environment: what "import settings" finds
    name_main,       \* environment: __name__ == '__main__'
    template_folder, \* environment: the template files that exist
    static_folder,   \* environment: the static files that exist
    werkzeug,        \* environment: generation of the routing library
    settings_mod,    \* the imported settings module (loaded or not)
    debug_reads,     \* how many times settings.debug has been evaluated
    run_arg,         \* the evaluated argument of app.run(debug=...)
    app_debug,       \* app.debug
    url_map,         \* app.url_map: the registered rules, in order
    view_functions,  \* app.view_functions: endpoint -> view function
    listener,        \* the listener app.run started, and its debug option
    requests,        \* bag of request contexts in flight
    failed_once      \* history: some view has raised

vars == <<pc, settings_src, name_main, template_folder, static_folder,
          werkzeug, settings_mod, debug_reads, run_arg, app_debug, url_map,
          view_functions, listener, requests, failed_once>>

env == <<settings_src, name_main, template_folder, static_folder, werkzeug>>

app_state == <<settings_mod, debug_reads, run_arg, app_debug, url_map,
               view_functions, listener>>

-----------------------------------------------------------------------------
(* Bounds and input sets                                                   *)

MaxInFlight == 2

Methods == {"GET", "POST"}

Paths == {"/", "/test/", "/test2/", "/test", "/test2", "/test/x",
          "/nonexistent", "/static/app.js"}

Templates == {"index.html", "test.html", "test2.html"}

TemplateFolders == {Templates} \cup {Templates \ {t} : t \in Templates}

StaticFolders == {{}, {"app.js"}}

\* "legacy": werkzeug before 0.15 (redirect 301); "modern": werkzeug 2.2 on
\* (redirect 308, state-machine matcher)
Generations == {"legacy", "modern"}

SettingsSources ==
    {[readable |-> FALSE, has_debug |-> FALSE, debug |-> FALSE],
     [readable |-> TRUE,  has_debug |-> FALSE, debug |-> FALSE],
     [readable |-> TRUE,  has_debug |-> TRUE,  debug |-> FALSE],
     [readable |-> TRUE,  has_debug |-> TRUE,  debug |-> TRUE]}

-----------------------------------------------------------------------------
(* Strings                                                                 *)

StartsWith(s, p) == Len(s) >= Len(p) /\ SubSeq(s, 1, Len(p)) = p

EndsWith(s, p) ==
    Len(s) >= Len(p) /\ SubSeq(s, Len(s) - Len(p) + 1, Len(s)) = p

-----------------------------------------------------------------------------
(* Rules and matching                                                      *)

\* @app.route(rule) with no methods argument: GET, plus the HEAD and OPTIONS
\* the framework adds
DefaultMethods == {"GET", "HEAD", "OPTIONS"}

Rule(rule, endpoint) ==
    [rule |-> rule, endpoint |-> endpoint, methods |-> DefaultMethods]

Converter == "<path:filename>"

HasConverter(rule) == EndsWith(rule, Converter)

StaticPart(rule) ==
    IF HasConverter(rule)
    THEN SubSeq(rule, 1, Len(rule) - Len(Converter))
    ELSE rule

\* a rule that ends with a slash is a branch, any other a leaf
IsLeaf(rule) == ~EndsWith(rule, "/")

\* faulty variant: strict_slashes off, a branch rule also takes the path without
\* its trailing slash
RuleMatchesLoose(rule, path) ==
    IF HasConverter(rule)
    THEN /\ StartsWith(path, StaticPart(rule))
         /\ Len(path) > Len(StaticPart(rule))
    ELSE path = rule \/ path \o "/" = rule

\* faulty variant: a branch rule takes every path under it
RuleMatchesPrefix(rule, path) ==
    IF HasConverter(rule)
    THEN /\ StartsWith(path, StaticPart(rule))
         /\ Len(path) > Len(StaticPart(rule))
    ELSE path = rule \/ (Len(rule) > 1 /\ StartsWith(path, rule))

\* the path is the rule, character for character (a path converter takes
\* whatever non-empty rest follows the static part)
RuleMatches(rule, path) ==
    IF HasConverter(rule)
    THEN /\ StartsWith(path, StaticPart(rule))
         /\ Len(path) > Len(StaticPart(rule))
    ELSE path = rule

\* strict_slashes: the path is a branch rule without its trailing slash
RuleMatchesSlashless(rule, path) ==
    /\ ~HasConverter(rule)
    /\ ~IsLeaf(rule)
    /\ path \o "/" = rule

MinOf(S) == CHOOSE i \in S : \A j \in S : i <= j

RedirectCode(gen) == IF gen = "legacy" THEN 301 ELSE 308

NoRoute == [kind |-> "not_found", endpoint |-> "", location |-> ""]

\* the routing of one request against the rules of the map
match(map, method, path, gen) ==
    LET exact     == {i \in DOMAIN map : RuleMatches(map[i].rule, path)}
        allowed   == {i \in exact : method \in map[i].methods}
        slashless == {i \in DOMAIN map :
                         RuleMatchesSlashless(map[i].rule, path)}
        slashOK   == {i \in slashless : method \in map[i].methods}
    IN  IF allowed # {}
        THEN [kind |-> "rule", endpoint |-> map[MinOf(allowed)].endpoint,
              location |-> ""]
        ELSE IF slashOK # {}
        THEN [kind |-> "redirect", endpoint |-> "",
              location |-> map[MinOf(slashOK)].rule]
        ELSE IF exact # {}
        THEN [NoRoute EXCEPT !.kind = "method_not_allowed"]
        ELSE IF slashless # {} /\ gen = "legacy"
        THEN [NoRoute EXCEPT !.kind = "method_not_allowed"]
        ELSE NoRoute

-----------------------------------------------------------------------------
(* Views and responses                                                     *)

Body(kind, name) == [kind |-> kind, name |-> name, context |-> {}]

NoBody == Body("empty", "")

\* render_template(name, **context): the document of the template under the
\* bindings given, or TemplateNotFound
render_template(name, context, folder) ==
    IF name \in folder
    THEN [ok |-> TRUE, template |-> name,
          body |-> [kind |-> "template", name |-> name, context |-> context]]
    ELSE [ok |-> FALSE, template |-> name, body |-> NoBody]

index(folder) == render_template("index.html", {}, folder)

test_js(folder) == render_template("test.html", {}, folder)

\* faulty variant: the view copied from test_js with its template left unchanged
test_taioqi_copied(folder) == render_template("test.html", {}, folder)

test_taioqi(folder) == render_template("test2.html", {}, folder)

\* what a view returned (or that it raised), as the dispatcher sees it
Returned(status, template, body) ==
    [raised |-> FALSE, status |-> status, template |-> template,
     body |-> body]

Raised(template) ==
    [raised |-> TRUE, status |-> 0, template |-> template, body |-> NoBody]

FromRender(r) ==
    IF r.ok THEN Returned(200, r.template, r.body) ELSE Raised(r.template)

\* the framework's own view of the rule /static/<path:filename>
send_static_file(path, files) ==
    LET filename == SubSeq(path, Len("/static/") + 1, Len(path))
    IN  IF filename \in files
        THEN Returned(200, "", Body("file", filename))
        ELSE Returned(404, "", Body("not_found", ""))

call_view(view, path, folder, files) ==
    CASE view = "index"       -> FromRender(index(folder))
      [] view = "test_js"     -> FromRender(test_js(folder))
      [] view = "test_taioqi" -> FromRender(test_taioqi(folder))
      [] view = "static"      -> send_static_file(path, files)

\* faulty variant: outside debug mode a failed render is translated to not-found
handle_exception_translated(debug) ==
    IF debug
    THEN [status |-> 500, body |-> Body("traceback", "")]
    ELSE [status |-> 404, body |-> Body("not_found", "")]

\* faulty variant: a failed render is caught and an empty page returned
handle_exception_swallowed(debug) == [status |-> 200, body |-> NoBody]

\* an exception no handler is registered for: the debugger's traceback page
\* in debug mode, the generic server error page otherwise
handle_exception(debug) ==
    [status |-> 500,
     body |-> IF debug THEN Body("traceback", "") ELSE Body("error", "")]

\* the response to a routing exception
routing_response(route, gen) ==
    CASE route.kind = "redirect" ->
            [status |-> RedirectCode(gen),
             body |-> Body("redirect", route.location)]
      [] route.kind = "method_not_allowed" ->
            [status |-> 405, body |-> Body("method_not_allowed", "")]
      [] route.kind = "not_found" ->
            [status |-> 404, body |-> Body("not_found", "")]

\* dispatch_request and what follows it, for a request whose rule matched
dispatch_request(views, endpoint, method, path, debug, folder, files) ==
    LET view == views[endpoint]
        rv   == call_view(view, path, folder, files)
        resp == IF rv.raised
                THEN handle_exception(debug)
                ELSE [status |-> rv.status, body |-> rv.body]
    IN  [invoked |-> <<view>>, template |-> rv.template, raised |-> rv.raised,
         status |-> resp.status, body |-> resp.body]

-----------------------------------------------------------------------------
(* Request contexts                                                        *)

Ctx(method, path, phase, endpoint, invoked, template, status, body) ==
    [method |-> method, path |-> path, phase |-> phase,
     endpoint |-> endpoint, invoked |-> invoked, template |-> template,
     status |-> status, body |-> body]

\* the context of a request just accepted: routed, and answered already if
\* routing raised
request_context(map, method, path, gen) ==
    LET route == match(map, method, path, gen)
    IN  IF route.kind = "rule"
        THEN Ctx(method, path, "matched", route.endpoint, <<>>, "", 0, NoBody)
        ELSE LET resp == routing_response(route, gen)
             IN  Ctx(method, path, "done", "", <<>>, "",
                     resp.status, resp.body)

InFlight == BagToSet(requests)

Matched == {r \in InFlight : r.phase = "matched"}

Done == {r \in InFlight : r.phase = "done"}

Without(r) == requests (-) SetToBag({r})

With(bag, r) == bag (+) SetToBag({r})

-----------------------------------------------------------------------------
(* The module body of app.py                                               *)

NoViews == [e \in {} |-> ""]

NoListener == [started |-> FALSE, debug |-> FALSE]

Init ==
    /\ pc = "import_settings"
    /\ settings_src \in SettingsSources
    /\ name_main \in BOOLEAN
    /\ template_folder \in TemplateFolders
    /\ static_folder \in StaticFolders
    /\ werkzeug \in Generations
    /\ settings_mod = [loaded |-> FALSE, has_debug |-> FALSE, debug |-> FALSE]
    /\ debug_reads = 0
    /\ run_arg = FALSE
    /\ app_debug = FALSE
    /\ url_map = <<>>
    /\ view_functions = NoViews
    /\ listener = NoListener
    /\ requests = EmptyBag
    /\ failed_once = FALSE

\* import settings: the module is executed and bound, or the import raises
\* and the interpreter exits
ImportSettings ==
    /\ pc = "import_settings"
    /\ IF settings_src.readable
       THEN /\ settings_mod' = [loaded |-> TRUE,
                                has_debug |-> settings_src.has_debug,
                                debug |-> settings_src.debug]
            /\ pc' = "create_app"
       ELSE /\ pc' = "crashed"
            /\ UNCHANGED settings_mod
    /\ UNCHANGED <<env, debug_reads, run_arg, app_debug, url_map,
                   view_functions, listener, requests, failed_once>>

\* add_url_rule: the rule is appended and the view bound to its endpoint
add_url_rule(map, rule, endpoint) == Append(map, Rule(rule, endpoint))

bind_view(views, endpoint, f) ==
    [e \in DOMAIN views \cup {endpoint} |->
        IF e = endpoint THEN f ELSE views[e]]

\* app = Flask(__name__): an application with debug off and the static
\* route the constructor registers
CreateApp ==
    /\ pc = "create_app"
    /\ app_debug' = FALSE
    /\ url_map' = add_url_rule(<<>>, "/static/" \o Converter, "static")
    /\ view_functions' = bind_view(NoViews, "static", "static")
    /\ pc' = "route_index"
    /\ UNCHANGED <<env, settings_mod, debug_reads, run_arg, listener,
                   requests, failed_once>>

\* @app.route(rule) def f(): ...
route(at, rule, f, next) ==
    /\ pc = at
    /\ url_map' = add_url_rule(url_map, rule, f)
    /\ view_functions' = bind_view(view_functions, f, f)
    /\ pc' = next
    /\ UNCHANGED <<env, settings_mod, debug_reads, run_arg, app_debug,
                   listener, requests, failed_once>>

RouteIndex == route("route_index", "/", "index", "route_test")

RouteTest == route("route_test", "/test/", "test_js", "route_test2")

\* faulty variant: the third route registered under the second route's path
RouteTest2Duplicate ==
    route("route_test2", "/test/", "test_taioqi", "main_guard")

RouteTest2 == route("route_test2", "/test2/", "test_taioqi", "main_guard")

\* faulty variant: app.run outside the main guard
MainGuardMissing ==
    /\ pc = "main_guard"
    /\ pc' = "eval_debug"
    /\ UNCHANGED <<env, app_state, requests, failed_once>>

\* if __name__ == '__main__':
MainGuard ==
    /\ pc = "main_guard"
    /\ pc' = IF name_main THEN "eval_debug" ELSE "imported"
    /\ UNCHANGED <<env, app_state, requests, failed_once>>

\* the argument settings.debug of app.run is evaluated: an attribute read,
\* which raises if the module has no such attribute
EvalDebug ==
    /\ pc = "eval_debug"
    /\ debug_reads' = debug_reads + 1
    /\ IF settings_mod.has_debug
       THEN /\ run_arg' = settings_mod.debug
            /\ pc' = "app_run"
       ELSE /\ pc' = "crashed"
            /\ UNCHANGED run_arg
    /\ UNCHANGED <<env, settings_mod, app_debug, url_map, view_functions,
                   listener, requests, failed_once>>

\* faulty variant: app.run(debug=True), the setting ignored
AppRunHardcoded ==
    /\ pc = "app_run"
    /\ app_debug' = TRUE
    /\ listener' = [started |-> TRUE, debug |-> TRUE]
    /\ pc' = "serving"
    /\ UNCHANGED <<env, settings_mod, debug_reads, run_arg, url_map,
                   view_functions, requests, failed_once>>

\* app.run(debug=...): app.debug is set and the listener started with it
AppRun ==
    /\ pc = "app_run"
    /\ app_debug' = run_arg
    /\ listener' = [started |-> TRUE, debug |-> run_arg]
    /\ pc' = "serving"
    /\ UNCHANGED <<env, settings_mod, debug_reads, run_arg, url_map,
                   view_functions, requests, failed_once>>

-----------------------------------------------------------------------------
(* Requests                                                                *)

\* requests reach the application through the listener app.run started, or
\* through the server that imported the module
Serving == pc \in {"serving", "imported"}

\* faulty variant: a path that matched no rule is registered on the fly
AcceptRegistering(method, path) ==
    /\ Serving
    /\ BagCardinality(requests) < MaxInFlight
    /\ requests' = With(requests,
                        request_context(url_map, method, path, werkzeug))
    /\ url_map' = IF match(url_map, method, path, werkzeug).kind = "not_found"
                  THEN add_url_rule(url_map, path, "index")
                  ELSE url_map
    /\ UNCHANGED <<pc, env, settings_mod, debug_reads, run_arg, app_debug,
                   view_functions, listener, failed_once>>

Accept(method, path) ==
    /\ Serving
    /\ BagCardinality(requests) < MaxInFlight
    /\ requests' = With(requests,
                        request_context(url_map, method, path, werkzeug))
    /\ UNCHANGED <<pc, env, app_state, failed_once>>

\* faulty variant: the view is looked up through a request object shared by all
\* requests in flight
CallViewShared(r) ==
    /\ r \in Matched
    /\ \E o \in Matched :
         LET d == dispatch_request(view_functions, o.endpoint, r.method,
                                   o.path, app_debug, template_folder,
                                   static_folder)
         IN  /\ requests' = With(Without(r),
                                 Ctx(r.method, r.path, "done", r.endpoint,
                                     r.invoked \o d.invoked, d.template,
                                     d.status, d.body))
             /\ failed_once' = (failed_once \/ d.raised)
    /\ UNCHANGED <<pc, env, app_state>>

CallView(r) ==
    /\ r \in Matched
    /\ LET d == dispatch_request(view_functions, r.endpoint, r.method,
                                 r.path, app_debug, template_folder,
                                 static_folder)
       IN  /\ requests' = With(Without(r),
                               Ctx(r.method, r.path, "done", r.endpoint,
                                   r.invoked \o d.invoked, d.template,
                                   d.status, d.body))
           /\ failed_once' = (failed_once \/ d.raised)
    /\ UNCHANGED <<pc, env, app_state>>

Send(r) ==
    /\ r \in Done
    /\ requests' = Without(r)
    /\ UNCHANGED <<pc, env, app_state, failed_once>>

Next ==
    \/ ImportSettings
    \/ CreateApp
    \/ RouteIndex
    \/ RouteTest
    \/ RouteTest2
    \/ MainGuard
    \/ EvalDebug
    \/ AppRun
    \/ \E method \in Methods, path \in Paths : Accept(method, path)
    \/ \E r \in InFlight : CallView(r)
    \/ \E r \in InFlight : Send(r)

Spec == Init /\ [][Next]_vars

-----------------------------------------------------------------------------
(* The application as the module body leaves it                            *)

\* url_map once lines 7-21 have run
StartupMap ==
    add_url_rule(
        add_url_rule(
            add_url_rule(
                add_url_rule(<<>>, "/static/" \o Converter, "static"),
                "/", "index"),
            "/test/", "test_js"),
        "/test2/", "test_taioqi")

\* view_functions once lines 7-21 have run
StartupViews ==
    bind_view(bind_view(bind_view(bind_view(NoViews, "static", "static"),
                                  "index", "index"),
                        "test_js", "test_js"),
              "test_taioqi", "test_taioqi")

\* the whole handling of one request by an application (map, views, debug)
full_dispatch_request(map, views, method, path, debug) ==
    LET c == request_context(map, method, path, werkzeug)
    IN  IF c.phase = "done"
        THEN c
        ELSE LET d == dispatch_request(views, c.endpoint, method, path,
                                       debug, template_folder, static_folder)
             IN  Ctx(method, path, "done", c.endpoint, d.invoked, d.template,
                     d.status, d.body)

\* the response a request gets when it is the only one the application,
\* fresh from startup, ever serves
Alone(method, path) ==
    full_dispatch_request(StartupMap, StartupViews, method, path, app_debug)

-----------------------------------------------------------------------------
(* The route table of the specification                                    *)

RegisteredPaths == {"/", "/test/", "/test2/"}

TemplateOfPath(p) ==
    CASE p = "/"       -> "index.html"
      [] p = "/test/"  -> "test.html"
      [] p = "/test2/" -> "test2.html"

ViewOfPath(p) ==
    CASE p = "/"       -> "index"
      [] p = "/test/"  -> "test_js"
      [] p = "/test2/" -> "test_taioqi"

AppViews == {"index", "test_js", "test_taioqi"}

Rendered(template) ==
    [kind |-> "template", name |-> template, context |-> {}]

\* the (path, template) pairs the application serves: each rule of the
\* map other than the framework's own, with the template its view asks for
RouteTable(map, views) ==
    {<<map[i].rule,
       call_view(views[map[i].endpoint], map[i].rule, Templates, {}).template>> :
        i \in {j \in DOMAIN map : map[j].endpoint # "static"}}

TableComplete == RegisteredPaths \subseteq {url_map[i].rule : i \in DOMAIN url_map}

-----------------------------------------------------------------------------
(* Claims                                                                  *)

\* C1: a GET for a registered path runs that path's view, which asks for
\* that path's template with an empty context; when the template exists the
\* response is 200 with the rendered template as body; no request is ever
\* answered from a template other than its own path's.
C1_RegisteredPathsRender ==
    \A r \in Done :
        /\ (r.method = "GET" /\ r.path \in RegisteredPaths) =>
              /\ r.invoked = <<ViewOfPath(r.path)>>
              /\ r.template = TemplateOfPath(r.path)
              /\ TemplateOfPath(r.path) \in template_folder =>
                    /\ r.status = 200
                    /\ r.body = Rendered(TemplateOfPath(r.path))
        /\ (r.template # "" \/ r.body.kind = "template") =>
              /\ r.path \in RegisteredPaths
              /\ r.template = TemplateOfPath(r.path)
              /\ r.body.kind = "template" =>
                    r.body = Rendered(TemplateOfPath(r.path))

C1_Witness ==
    \E r \in Done :
        /\ r.method = "GET" /\ r.path = "/test2/"
        /\ r.status = 200 /\ r.body = Rendered("test2.html")

C3_NearMissUnmatched ==
    \A r \in Done :
        r.method = "GET" =>
            /\ \A p \in RegisteredPaths :
                  (\E i \in DOMAIN r.invoked : r.invoked[i] = ViewOfPath(p))
                      <=> r.path = p
            /\ Len(r.invoked) <= 1
            /\ r.path \in {"/test", "/test2", "/test/x"} => r.status = 404

\* C3 amended: for a GET a handler is invoked iff the path equals its
\* registered path, and at most one handler is invoked; /test/x is
\* unmatched (404); /test and /test2 invoke no handler but are not treated
\* as unmatched: they are redirected to /test/ and /test2/.
C3_ExactMatchOrRedirect ==
    \A r \in Done :
        r.method = "GET" =>
            /\ \A p \in RegisteredPaths :
                  (\E i \in DOMAIN r.invoked : r.invoked[i] = ViewOfPath(p))
                      <=> r.path = p
            /\ Len(r.invoked) <= 1
            /\ r.path = "/test/x" => r.status = 404 /\ r.invoked = <<>>
            /\ r.path \in {"/test", "/test2"} =>
                  /\ r.invoked = <<>>
                  /\ r.status \in {301, 308}
                  /\ r.body = Body("redirect", r.path \o "/")

C3_Witness ==
    /\ \E r \in Done : r.method = "GET" /\ r.path = "/test/x" /\ r.status = 404
    /\ \E r \in Done : r.method = "GET" /\ r.path = "/test2"
                         /\ r.body = Body("redirect", "/test2/")

\* what of a response is routing: 200 or not, 404 or not, the template
Outcome(c) == <<c.status = 200, c.status = 404, c.template>>

C5_RouteTableFixed ==
    Serving =>
        /\ RouteTable(url_map, view_functions) =
              {<<p, TemplateOfPath(p)>> : p \in RegisteredPaths}
        /\ \A i, j \in DOMAIN url_map :
              url_map[i].rule = url_map[j].rule => i = j
        /\ Len(url_map) = Cardinality(RegisteredPaths) + 1

C5_Witness ==
    /\ Serving /\ failed_once
    /\ \E r \in Done : r.status = 404
    /\ \E r \in Done : r.status = 500

C7_Stateless ==
    \A r \in Done : r = Alone(r.method, r.path)

C7_Witness ==
    /\ failed_once
    /\ \E r \in Done : r.status = 200 /\ CopiesIn(r, requests) = 2

\* C8: when the template of a registered path is missing, the GET is
\* answered 500 (not 200, not 404) with the framework's error page, the view
\* having been called; once that has happened every response is still the
\* one its request gets from a fresh application.
C8_RenderFailureIs500 ==
    /\ \A r \in Done :
          (/\ r.method = "GET"
           /\ r.path \in RegisteredPaths
           /\ TemplateOfPath(r.path) \notin template_folder) =>
              /\ r.status = 500
              /\ r.body.kind \in {"error", "traceback"}
              /\ r.invoked = <<ViewOfPath(r.path)>>
    /\ failed_once =>
          /\ url_map = StartupMap
          /\ view_functions = StartupViews
          /\ \A r \in Done :
                /\ r = Alone(r.method, r.path)
                /\ (/\ r.method = "GET"
                    /\ r.path \in RegisteredPaths
                    /\ TemplateOfPath(r.path) \in template_folder) =>
                      r.status = 200

C8_Witness ==
    /\ failed_once
    /\ \E r \in Done : r.status = 500 /\ r.path = "/test/"
    /\ \E r \in Done : r.status = 200 /\ r.path = "/"

\* C9: settings.debug is evaluated at most once, before the listener
\* starts, and the listener gets that value; when the settings module
\* cannot be read nothing is started and no request is served.
C9_DebugReadOnceAndPassed ==
    /\ debug_reads <= 1
    /\ pc = "app_run" =>
          /\ debug_reads = 1
          /\ ~listener.started
          /\ run_arg = settings_src.debug
    /\ listener.started =>
          /\ debug_reads = 1
          /\ settings_src.readable /\ settings_src.has_debug
          /\ listener.debug = settings_src.debug
          /\ app_debug = settings_src.debug
    /\ ~settings_src.readable =>
          /\ ~listener.started
          /\ requests = EmptyBag
          /\ pc \in {"import_settings", "crashed"}
          /\ url_map = <<>>

C9_Witness ==
    /\ listener.started /\ ~listener.debug
    /\ settings_src.debug = FALSE
    /\ Done # {}

\* C10: a listener is started only under the main guard and only with the
\* three routes registered; a module loaded otherwise has the three routes
\* and no listener; no request is in flight before the table is complete.
C10_ListenerOnlyAsMain ==
    /\ listener.started => name_main /\ TableComplete
    /\ ~name_main => ~listener.started /\ debug_reads = 0
    /\ pc = "imported" => ~name_main /\ TableComplete
    /\ requests # EmptyBag => TableComplete /\ Serving

C10_Witness ==
    /\ pc = "imported"
    /\ ~listener.started
    /\ \E r \in Done : r.status = 200

====
